---- MODULE Spec2Model ----
(***************************************************************************)
(* Model of the bhqueue mobile client:                                     *)
(*   - the queue store (useQueueStore, zustand) with its asynchronous      *)
(*     operations against the backend, the HomeScreen join flow that      *)
(*     calls it, and QueueScreen with its periodic position reporter;      *)
(*   - the LocationAcquisition modal (GPS acquisition state machine) as    *)
(*     hosted by HomeScreen.                                               *)
(* JavaScript runs handlers to completion on one event loop, so every      *)
(* handler, promise continuation and timer callback is one atomic action.  *)
(* A handler that changes the modal's visible prop includes the re-render  *)
(* it causes: the effect on visible (cleanup, start) runs in the same      *)
(* action.                                                                 *)
(***************************************************************************)
EXTENDS Integers, FiniteSets, Sequences, Bags, TLC

(***************************************************************************)
(* Bounds of the exploration.                                              *)
(***************************************************************************)
MaxRequests == 4
MaxFlows == 2
MaxReads == 1
MaxAlerts == 2

None == "none"
\* null, for the values that are records
\* Answers to GET /api/queue/session other than a session, and the value of
\* lastFetch before any answer.
NotFound == [status |-> 404]
TransportFailure == [status |-> 0]
NoAnswer == [status |-> -1]

NoSession == [queue_type |-> None, result |-> None, nearest_marker_id |-> 0]
NoLocation == [accuracy |-> 0, pos |-> None, seq |-> 0]

(***************************************************************************)
(* ------------------ queue store and QueueScreen ---------------------- *)
(***************************************************************************)
VARIABLES
  session,        \* QueueState.session (NoSession = null)
  currentMarker,  \* QueueState.currentMarker, a marker id (0 = null)
  markers,        \* QueueState.markers, as the set of marker ids loaded
  isJoining,      \* QueueState.isJoining
  isSubmitting,   \* QueueState.isSubmitting
  error,          \* QueueState.error (None = null)
  reqs,           \* bag of the network requests awaiting their response
  nextReq,        \* number of network requests issued so far
  flows           \* per queue type: doJoinQueueWithCoords calls awaiting fetchMarkers

\* QueueScreen, the screen that owns the periodic position reporter.
VARIABLES
  mounted,            \* QueueScreen is on the navigation stack
  locationPermission, \* useState locationPermission
  permPending,        \* the mount effect awaits requestForegroundPermissionsAsync
  interval,           \* the setInterval(updatePosition, 120000) of the effect is set
  reading,            \* updatePosition calls awaiting getCurrentPositionAsync
  alert,              \* bag of the Alert dialogs opened and not yet answered
                      \* (a result or "leave"): Alert.alert returns at once
  \* history of the run, read by the properties only
  lastPosCall,        \* what the last submitPosition call did: "sent" or "skipped",
                      \* and how the last send ended: "acked" or "failed"
  lastAck,            \* the last acknowledged operation that cleared the session
  issuedSinceAck,     \* a join or session request was issued since that
                      \* acknowledgement (TRUE before any)
  lastFetch,          \* how the last fetchSession ended: the server's answer
                      \* (a session or NotFound) or TransportFailure
  lastCheckpoint,     \* what the last submitCheckpoint call did: "sent" or
                      \* "skipped", and how the last send ended: "acked" or "failed"
  waitMinutes         \* what the last submitCheckpoint call returned as
                      \* waitMinutes: "null" or "minutes" (None: no call returned)

screenVars == <<mounted, locationPermission, permPending, interval, reading,
                alert, lastPosCall, lastAck, issuedSinceAck, lastFetch, lastCheckpoint, waitMinutes>>

\* The backend's side of the checkpoint requests in flight.
VARIABLES
  served,         \* bag of the marker ids of the checkpoint requests in flight
                  \* that the server has acknowledged
  serverMarker,   \* the marker of the checkpoint the server acknowledged last
                  \* (0 when no checkpoint request is in flight)
  cpLost          \* history: the response to an acknowledged checkpoint was
                  \* lost while the requests now in flight were in flight

serverVars == <<served, serverMarker, cpLost>>

storeVars == <<session, currentMarker, markers, isJoining, isSubmitting,
               error, reqs, nextReq, flows, screenVars, serverVars>>

\* The LocationAcquisition modal and its host (described below).
VARIABLES
  clock,           \* Date.now()
  permission,      \* the device's foreground location permission
  SKIP_LOCATION_VALIDATION, \* build flag of the component
  visible,         \* HomeScreen.showLocationModal = the modal's visible prop
  status,          \* useState status
  message,         \* useState message (by kind)
  bestLocation,    \* useState bestLocation (NoLocation = null)
  watchRef,        \* watchRef.current: attempt whose subscription it holds, 0 = null
  timeoutRef,      \* timeoutRef.current: attempt whose maxWait timer it holds, 0 = null
  startTimeRef,    \* startTimeRef.current
  att,             \* per attempt: position in startLocationAcquisition, closure's bestLocation
  nAttempts,       \* attempts started so far
  subs,            \* attempts whose position subscription is active on the device
  timers,          \* pending setTimeout timers
  samplesSent,     \* samples delivered by the device so far
  \* history of the run, read by the properties only
  recv,            \* per attempt: the most accurate sample its callback received
  fin,             \* per attempt: the number of finishWithLocation calls
  tmo,             \* per attempt: what its maxWait handler saw and did
  lastFinish,      \* the last finishWithLocation call
  rejected,        \* the samples finishWithLocation found outside the geofence
  lastError,       \* the last onError call
  delivered,       \* the last onLocationAcquired argument: the coordinates that
                   \* handleLocationAcquired passes to doJoinQueueWithCoords
  cancelled,       \* onCancel closed the modal and it was not opened since
  lateCallback     \* a completion callback ran while cancelled

acqVars == <<clock, permission, SKIP_LOCATION_VALIDATION, visible, status,
             message, bestLocation, watchRef, timeoutRef, startTimeRef, att,
             nAttempts, subs, timers, samplesSent, recv, fin, tmo, lastFinish,
             rejected, lastError, delivered, cancelled, lateCallback>>

histVars == <<recv, fin, tmo, lastFinish, rejected, lastError, delivered,
              lateCallback>>

\* The checkpoint grid of QueueScreen taken alone: the marker list it is
\* given and, per queue type, the list it showed when last rendered for it.
VARIABLES
  markerList,     \* the markers handed to the screen
  shown           \* per queue type: rendered or not, and the buttons shown

\* getDistanceMeters taken alone: two points and the distances measured
\* between them so far.
VARIABLES
  pointA,         \* [lat, lon] in degrees
  pointB,         \* [lat, lon] in degrees
  measured        \* per pair ("aa", "ab", "ba", "bb"): the value returned, -1 = not called

distVars == <<pointA, pointB, measured>>

dispVars == <<markerList, shown, distVars>>

vars == <<storeVars, acqVars, dispVars>>

MarkerIds == {1, 2, 3}
QueueTypes == {"main", "guest_list"}
Results == {"admitted", "rejected"}

\* QueueSession values the backend can answer with.
Sessions ==
  [queue_type : QueueTypes, result : {None, "admitted"},
   nearest_marker_id : {0, 1}]

InitStore ==
  /\ session = NoSession
  /\ currentMarker = 0
  /\ markers = {}
  /\ isJoining = FALSE
  /\ isSubmitting = FALSE
  /\ error = None
  /\ reqs = EmptyBag
  /\ nextReq = 0
  /\ flows = [qt \in QueueTypes |-> 0]
  /\ mounted = FALSE
  /\ locationPermission = FALSE
  /\ permPending = FALSE
  /\ interval = FALSE
  /\ reading = 0
  /\ alert = EmptyBag
  /\ lastPosCall = None
  /\ lastAck = None
  /\ issuedSinceAck = TRUE
  /\ lastFetch = NoAnswer
  /\ lastCheckpoint = None
  /\ waitMinutes = None
  /\ served = EmptyBag
  /\ serverMarker = 0
  /\ cpLost = FALSE

\* A call of one of the api functions: the request leaves the client.
Issue(kind, arg) ==
  /\ nextReq < MaxRequests
  /\ nextReq' = nextReq + 1
  /\ reqs' = reqs (+) SetToBag({[kind |-> kind, arg |-> arg]})

\* The response to request r arrives, and the handler calls an api function.
Reissue(r, kind, arg) ==
  /\ nextReq < MaxRequests
  /\ nextReq' = nextReq + 1
  /\ reqs' = (reqs (-) SetToBag({r})) (+) SetToBag({[kind |-> kind, arg |-> arg]})

\* The requests of a kind in flight, and their number.
InFlight(kind) == {r \in BagToSet(reqs) : r.kind = kind}
NumInFlight(kind) ==
  LET RECURSIVE Sum(_)
      Sum(S) == IF S = {} THEN 0
                ELSE LET r == CHOOSE x \in S : TRUE
                     IN CopiesIn(r, reqs) + Sum(S \ {r})
  IN Sum(InFlight(kind))

\* QueueScreen's effect on [locationPermission, session], run after a
\* render in which one of the two changed (lp, s: their new values): the
\* cleanup clears the interval of the previous run; with the permission and
\* a session the effect calls updatePosition() and sets a new interval.
reporterEffect(lp, s) ==
  LET start == mounted /\ lp /\ s # NoSession
  IN /\ start => reading < MaxReads
     /\ interval' = start
     /\ reading' = IF start THEN reading + 1 ELSE reading

\* QueueScreen unmounts (navigation.goBack() with the screen on top): the
\* cleanup of the effect clears the interval; the component's state is gone.
unmountQueueScreen ==
  /\ mounted' = FALSE
  /\ locationPermission' = FALSE
  /\ permPending' = FALSE
  /\ interval' = FALSE

\* navigation.navigate('Queue') mounts QueueScreen unless it is there: the
\* mount effects request the location permission and the markers
\* (locationPermission is false at first, so no interval is set yet).
navigateQueue ==
  /\ mounted' = TRUE
  /\ locationPermission' = IF mounted THEN locationPermission ELSE FALSE
  /\ permPending' = IF mounted THEN permPending ELSE TRUE

\* HomeScreen: the action button starts a join flow.  The button is
\* disabled while isJoining and opens the queue instead when a session
\* exists; the flow (doJoinQueueWithCoords) then awaits fetchMarkers
\* before it calls joinQueue.
doJoinQueueWithCoords(queueType) ==
  /\ ~mounted
  /\ ~isJoining
  /\ session = NoSession
  /\ flows["main"] + flows["guest_list"] < MaxFlows
  /\ flows' = [flows EXCEPT ![queueType] = @ + 1]
  /\ UNCHANGED <<session, currentMarker, markers, isJoining, isSubmitting,
                 error, reqs, nextReq, screenVars>>
  /\ UNCHANGED <<serverVars, acqVars, dispVars>>

\* fetchMarkers has returned in a flow: joinQueue sets the flag and issues
\* the request.
joinQueue(queueType) ==
  /\ flows[queueType] > 0
  /\ flows' = [flows EXCEPT ![queueType] = @ - 1]
  /\ markers' = MarkerIds
  /\ isJoining' = TRUE
  /\ error' = None
  /\ Issue("join", queueType)
  /\ issuedSinceAck' = TRUE
  /\ UNCHANGED <<session, currentMarker, isSubmitting, mounted, locationPermission, permPending,
                 interval, reading, alert, lastPosCall, lastAck, lastFetch,
                 lastCheckpoint, waitMinutes>>
  /\ UNCHANGED <<serverVars, acqVars, dispVars>>

\* apiJoinQueue resolved with a session; the flow then navigates to the
\* queue screen, whose mount calls fetchMarkers.
joinQueueResolved(r, s) ==
  /\ r.kind = "join"
  /\ s.queue_type = r.arg
  /\ s.result = None
  /\ session' = s
  /\ currentMarker' =
       IF s.nearest_marker_id # 0 /\ s.nearest_marker_id \in markers
         THEN s.nearest_marker_id ELSE 0
  /\ isJoining' = FALSE
  /\ navigateQueue
  /\ IF mounted
       THEN /\ reqs' = reqs (-) SetToBag({r})
            /\ reporterEffect(locationPermission, s)
            /\ UNCHANGED nextReq
       ELSE /\ Reissue(r, "markers", None)
            /\ UNCHANGED <<interval, reading>>
  /\ UNCHANGED <<markers, isSubmitting, error, flows, alert, lastPosCall, lastAck, issuedSinceAck, lastFetch, lastCheckpoint, waitMinutes>>
  /\ UNCHANGED <<serverVars, acqVars, dispVars>>

\* apiJoinQueue rejected.
joinQueueRejected(r) ==
  /\ r.kind = "join"
  /\ reqs' = reqs (-) SetToBag({r})
  /\ error' = "Failed to join queue"
  /\ isJoining' = FALSE
  /\ UNCHANGED <<session, currentMarker, markers, isSubmitting, nextReq, flows,
                 screenVars>>
  /\ UNCHANGED <<serverVars, acqVars, dispVars>>

\* HomeScreen: with a session the action button opens the queue screen.
handleContinueQueue ==
  /\ ~mounted
  /\ ~isJoining
  /\ session # NoSession
  /\ navigateQueue
  /\ Issue("markers", None)
  /\ UNCHANGED <<session, currentMarker, markers, isJoining, isSubmitting,
                 error, flows, interval, reading, alert, lastPosCall, lastAck, issuedSinceAck, lastFetch, lastCheckpoint, waitMinutes>>
  /\ UNCHANGED <<serverVars, acqVars, dispVars>>

\* getClubMarkers resolved for the fetchMarkers of the mount.
fetchMarkersResolved(r) ==
  /\ r.kind = "markers"
  /\ reqs' = reqs (-) SetToBag({r})
  /\ markers' = MarkerIds
  /\ UNCHANGED <<session, currentMarker, isJoining, isSubmitting, error,
                 nextReq, flows, screenVars>>
  /\ UNCHANGED <<serverVars, acqVars, dispVars>>

\* getClubMarkers rejected.
fetchMarkersRejected(r) ==
  /\ r.kind = "markers"
  /\ reqs' = reqs (-) SetToBag({r})
  /\ UNCHANGED <<session, currentMarker, markers, isJoining, isSubmitting,
                 error, nextReq, flows, screenVars>>
  /\ UNCHANGED <<serverVars, acqVars, dispVars>>

\* The back button or gesture of the navigator on the queue screen.
goBack ==
  /\ mounted
  /\ unmountQueueScreen
  /\ UNCHANGED <<session, currentMarker, markers, isJoining, isSubmitting,
                 error, reqs, nextReq, flows, reading, alert, lastPosCall,
                 lastAck, issuedSinceAck, lastFetch, lastCheckpoint, waitMinutes>>
  /\ UNCHANGED <<serverVars, acqVars, dispVars>>

\* requestForegroundPermissionsAsync of the mount effect resolved.
locationPermissionResolved ==
  /\ mounted
  /\ permPending
  /\ permPending' = FALSE
  /\ locationPermission' = (permission = "granted")
  /\ IF locationPermission' # locationPermission
       THEN reporterEffect(locationPermission', session)
       ELSE UNCHANGED <<interval, reading>>
  /\ UNCHANGED <<session, currentMarker, markers, isJoining, isSubmitting,
                 error, reqs, nextReq, flows, mounted, alert, lastPosCall,
                 lastAck, issuedSinceAck, lastFetch, lastCheckpoint, waitMinutes>>
  /\ UNCHANGED <<serverVars, acqVars, dispVars>>

\* The interval fires: updatePosition() starts a position read.
updatePosition ==
  /\ interval
  /\ reading < MaxReads
  /\ reading' = reading + 1
  /\ UNCHANGED <<session, currentMarker, markers, isJoining, isSubmitting,
                 error, reqs, nextReq, flows, mounted, locationPermission,
                 permPending, interval, alert, lastPosCall, lastAck, issuedSinceAck, lastFetch, lastCheckpoint, waitMinutes>>
  /\ UNCHANGED <<serverVars, acqVars, dispVars>>

\* Faulty variant of submitPosition: the position is sent whatever the
\* session is.
submitPositionUnguarded ==
  /\ reading > 0
  /\ reading' = reading - 1
  /\ Issue("position", None)
  /\ lastPosCall' = "sent"
  /\ UNCHANGED <<session, currentMarker, markers, isJoining, isSubmitting,
                 error, flows, mounted, locationPermission, permPending,
                 interval, alert, lastAck, issuedSinceAck, lastFetch, lastCheckpoint, waitMinutes>>
  /\ UNCHANGED <<serverVars, acqVars, dispVars>>

\* getCurrentPositionAsync resolved in an updatePosition call, which calls
\* submitPosition: nothing is sent without a session or with a result.
submitPosition ==
  /\ reading > 0
  /\ reading' = reading - 1
  /\ IF session = NoSession \/ session.result # None
       THEN /\ lastPosCall' = "skipped"
            /\ UNCHANGED <<reqs, nextReq>>
       ELSE /\ lastPosCall' = "sent"
            /\ Issue("position", None)
  /\ UNCHANGED <<session, currentMarker, markers, isJoining, isSubmitting,
                 error, flows, mounted, locationPermission, permPending,
                 interval, alert, lastAck, issuedSinceAck, lastFetch, lastCheckpoint, waitMinutes>>
  /\ UNCHANGED <<serverVars, acqVars, dispVars>>

\* getCurrentPositionAsync rejected: updatePosition ignores it.
updatePositionFailed ==
  /\ reading > 0
  /\ reading' = reading - 1
  /\ UNCHANGED <<session, currentMarker, markers, isJoining, isSubmitting,
                 error, reqs, nextReq, flows, mounted, locationPermission,
                 permPending, interval, alert, lastPosCall, lastAck, issuedSinceAck, lastFetch, lastCheckpoint, waitMinutes>>
  /\ UNCHANGED <<serverVars, acqVars, dispVars>>

\* apiSubmitPosition resolved.
submitPositionResolved(r) ==
  /\ r.kind = "position"
  /\ reqs' = reqs (-) SetToBag({r})
  /\ lastPosCall' = "acked"
  /\ UNCHANGED <<session, currentMarker, markers, isJoining, isSubmitting,
                 error, nextReq, flows, mounted, locationPermission,
                 permPending, interval, reading, alert, lastAck, issuedSinceAck, lastFetch, lastCheckpoint, waitMinutes>>
  /\ UNCHANGED <<serverVars, acqVars, dispVars>>

\* Faulty variant of submitPositionRejected: the failure is put in the
\* store's error as the other operations do.
submitPositionRejectedSurfaced(r) ==
  /\ r.kind = "position"
  /\ reqs' = reqs (-) SetToBag({r})
  /\ lastPosCall' = "failed"
  /\ error' = "Failed to submit position"
  /\ UNCHANGED <<session, currentMarker, markers, isJoining, isSubmitting,
                 nextReq, flows, mounted, locationPermission,
                 permPending, interval, reading, alert, lastAck, issuedSinceAck, lastFetch, lastCheckpoint, waitMinutes>>
  /\ UNCHANGED <<serverVars, acqVars, dispVars>>

\* apiSubmitPosition rejected: logged, nothing else.
submitPositionRejected(r) ==
  /\ r.kind = "position"
  /\ reqs' = reqs (-) SetToBag({r})
  /\ lastPosCall' = "failed"
  /\ UNCHANGED <<session, currentMarker, markers, isJoining, isSubmitting,
                 error, nextReq, flows, mounted, locationPermission,
                 permPending, interval, reading, alert, lastAck, issuedSinceAck, lastFetch, lastCheckpoint, waitMinutes>>
  /\ UNCHANGED <<serverVars, acqVars, dispVars>>

\* HomeScreen's mount effect calls fetchSession.
fetchSession ==
  /\ Issue("session", None)
  /\ UNCHANGED <<session, currentMarker, markers, isJoining, isSubmitting,
                 error, flows, mounted, locationPermission, permPending,
                 interval, reading, alert, lastPosCall, lastAck, lastFetch,
                 lastCheckpoint, waitMinutes>>
  /\ issuedSinceAck' = TRUE
  /\ UNCHANGED <<serverVars, acqVars, dispVars>>

\* The api function getQueueSession: the session the server answers with,
\* and null when the server answers "not found".
getQueueSession(answer) == IF answer = NotFound THEN NoSession ELSE answer

\* Faulty variant of fetchSessionResolved: a local session is kept whatever
\* the server answers.
fetchSessionResolvedKeepsLocal(r, answer) ==
  /\ r.kind = "session"
  /\ reqs' = reqs (-) SetToBag({r})
  /\ LET s == IF session # NoSession THEN session ELSE getQueueSession(answer)
     IN /\ session' = s
        /\ IF s = NoSession /\ session = NoSession
             THEN UNCHANGED <<interval, reading>>
             ELSE reporterEffect(locationPermission, s)
  /\ error' = None
  /\ lastFetch' = answer
  /\ UNCHANGED <<currentMarker, markers, isJoining, isSubmitting, nextReq,
                 flows, mounted, locationPermission, permPending, alert,
                 lastPosCall, lastAck, issuedSinceAck, lastCheckpoint, waitMinutes>>
  /\ UNCHANGED <<serverVars, acqVars, dispVars>>

\* getQueueSession resolved: the store takes what it returns.  A new
\* session object re-runs the effect of a mounted QueueScreen.
fetchSessionResolved(r, answer) ==
  /\ r.kind = "session"
  /\ reqs' = reqs (-) SetToBag({r})
  /\ LET s == getQueueSession(answer)
     IN /\ session' = s
        /\ IF s = NoSession /\ session = NoSession
             THEN UNCHANGED <<interval, reading>>
             ELSE reporterEffect(locationPermission, s)
  /\ error' = None
  /\ lastFetch' = answer
  /\ UNCHANGED <<currentMarker, markers, isJoining, isSubmitting, nextReq,
                 flows, mounted, locationPermission, permPending, alert,
                 lastPosCall, lastAck, issuedSinceAck, lastCheckpoint, waitMinutes>>
  /\ UNCHANGED <<serverVars, acqVars, dispVars>>

\* getQueueSession rejected (transport or server failure): logged only.
fetchSessionRejected(r) ==
  /\ r.kind = "session"
  /\ reqs' = reqs (-) SetToBag({r})
  /\ lastFetch' = TransportFailure
  /\ UNCHANGED <<session, currentMarker, markers, isJoining, isSubmitting,
                 error, nextReq, flows, mounted, locationPermission,
                 permPending, interval, reading, alert, lastPosCall, lastAck, issuedSinceAck,
                 lastCheckpoint, waitMinutes>>
  /\ UNCHANGED <<serverVars, acqVars, dispVars>>

\* QueueScreen renders its buttons when it has a session; they are
\* disabled while isSubmitting.  A result button opens a confirmation:
\* Alert.alert hands the dialog to the native side and returns, and nothing
\* in the code keeps a tap from arriving before the dialog covers the
\* screen, so a dialog may be opened while another is still unanswered.
handleResult(result) ==
  /\ mounted
  /\ session # NoSession
  /\ ~isSubmitting
  /\ BagCardinality(alert) < MaxAlerts
  /\ alert' = alert (+) SetToBag({result})
  /\ UNCHANGED <<session, currentMarker, markers, isJoining, isSubmitting,
                 error, reqs, nextReq, flows, mounted, locationPermission,
                 permPending, interval, reading, lastPosCall, lastAck, issuedSinceAck, lastFetch, lastCheckpoint, waitMinutes>>
  /\ UNCHANGED <<serverVars, acqVars, dispVars>>

\* The markers the backend answers with: two of the main queue and one
\* whose name is in glMarkerNames.
ServerMarkers ==
  <<[id |-> 1, name |-> "Kiosk"], [id |-> 2, name |-> "Barriers"],
    [id |-> 3, name |-> "Metro sign"]>>

\* QueueState.markers as the list QueueScreen reads.
LoadedMarkers == SelectSeq(ServerMarkers, LAMBDA m : m.id \in markers)

glMarkerNames == {"Barriers", "Love sculpture", "Garten door", "ATM", "Park"}

\* Faulty variant of mainQueueMarkers: a queue other than the main one is
\* shown every marker.
mainQueueMarkersAll(queue_type, ms) ==
  IF queue_type = "main"
    THEN SelectSeq(ms, LAMBDA m : m.name \notin glMarkerNames)
    ELSE ms

\* The markers QueueScreen shows as checkpoint buttons: for the main
\* queue those whose name is not in glMarkerNames, else those whose name is.
mainQueueMarkers(queue_type, ms) ==
  IF queue_type = "main"
    THEN SelectSeq(ms, LAMBDA m : m.name \notin glMarkerNames)
    ELSE SelectSeq(ms, LAMBDA m : m.name \in glMarkerNames)

\* Faulty variant of submitCheckpoint: it sends whatever the session is, as
\* submitResult does.
submitCheckpointUnguarded(marker) ==
  /\ isSubmitting' = TRUE
  /\ Issue("checkpoint", marker.id)
  /\ lastCheckpoint' = "sent"
  /\ UNCHANGED waitMinutes

\* The store's submitCheckpoint(marker): without a session or with a
\* result it returns { waitMinutes: null } at once; else it sets
\* isSubmitting and sends the checkpoint.
submitCheckpoint(marker) ==
  IF session = NoSession \/ session.result # None
    THEN /\ waitMinutes' = "null"
         /\ lastCheckpoint' = "skipped"
         /\ UNCHANGED <<isSubmitting, reqs, nextReq>>
    ELSE /\ isSubmitting' = TRUE
         /\ Issue("checkpoint", marker.id)
         /\ lastCheckpoint' = "sent"
         /\ UNCHANGED waitMinutes

\* A checkpoint button of QueueScreen.
handleCheckpoint(marker) ==
  /\ mounted
  /\ session # NoSession
  /\ ~isSubmitting
  /\ \E i \in DOMAIN mainQueueMarkers(session.queue_type, LoadedMarkers) :
        mainQueueMarkers(session.queue_type, LoadedMarkers)[i] = marker
  /\ submitCheckpoint(marker)
  /\ UNCHANGED <<session, currentMarker, markers, isJoining, error, flows,
                 mounted, locationPermission, permPending, interval, reading,
                 alert, lastPosCall, lastAck, issuedSinceAck, lastFetch>>
  /\ UNCHANGED <<serverVars, acqVars, dispVars>>

\* The server acknowledges a checkpoint request in flight: the checkpoint
\* is recorded and the response leaves the server.
serverCheckpoint(r) ==
  /\ r.kind = "checkpoint"
  /\ CopiesIn(r, reqs) > CopiesIn(r.arg, served)
  /\ served' = served (+) SetToBag({r.arg})
  /\ serverMarker' = r.arg
  /\ UNCHANGED <<session, currentMarker, markers, isJoining, isSubmitting,
                 error, reqs, nextReq, flows, screenVars, cpLost>>
  /\ UNCHANGED <<acqVars, dispVars>>

\* The response to checkpoint request r arrives at the client; acknowledged:
\* the server had recorded the checkpoint (a failure is then a lost
\* response).  With the last response the server's side is forgotten.
checkpointAnswered(r, acknowledged, ok) ==
  /\ IF acknowledged
       THEN /\ BagIn(r.arg, served)
            /\ served' = served (-) SetToBag({r.arg})
       ELSE /\ CopiesIn(r, reqs) > CopiesIn(r.arg, served)
            /\ UNCHANGED served
  /\ IF NumInFlight("checkpoint") = 1
       THEN serverMarker' = 0 /\ cpLost' = FALSE
       ELSE /\ UNCHANGED serverMarker
            /\ cpLost' = (cpLost \/ (acknowledged /\ ~ok))

\* apiSubmitCheckpoint resolved with estimated_wait_minutes w: the marker
\* of the call becomes currentMarker.  handleCheckpoint then shows the
\* 'Checkpoint Recorded' notice when w is not null; its OK button does
\* nothing.
submitCheckpointResolved(r, w) ==
  /\ r.kind = "checkpoint"
  /\ reqs' = reqs (-) SetToBag({r})
  /\ currentMarker' = r.arg
  /\ isSubmitting' = FALSE
  /\ waitMinutes' = w
  /\ lastCheckpoint' = "acked"
  /\ checkpointAnswered(r, TRUE, TRUE)
  /\ UNCHANGED <<session, markers, isJoining, error, nextReq, flows,
                 mounted, locationPermission, permPending, interval, reading,
                 alert, lastPosCall, lastAck, issuedSinceAck, lastFetch>>
  /\ UNCHANGED <<acqVars, dispVars>>

\* Faulty variant of submitCheckpointRejected: the marker was selected
\* optimistically and stays selected.
submitCheckpointRejectedOptimistic(r) ==
  /\ r.kind = "checkpoint"
  /\ reqs' = reqs (-) SetToBag({r})
  /\ currentMarker' = r.arg
  /\ error' = "Failed to submit checkpoint"
  /\ isSubmitting' = FALSE
  /\ waitMinutes' = "null"
  /\ lastCheckpoint' = "failed"
  /\ \E acknowledged \in BOOLEAN : checkpointAnswered(r, acknowledged, FALSE)
  /\ UNCHANGED <<session, markers, isJoining, nextReq, flows,
                 mounted, locationPermission, permPending, interval, reading,
                 alert, lastPosCall, lastAck, issuedSinceAck, lastFetch>>
  /\ UNCHANGED <<acqVars, dispVars>>

\* apiSubmitCheckpoint rejected.
submitCheckpointRejected(r) ==
  /\ r.kind = "checkpoint"
  /\ reqs' = reqs (-) SetToBag({r})
  /\ error' = "Failed to submit checkpoint"
  /\ isSubmitting' = FALSE
  /\ waitMinutes' = "null"
  /\ lastCheckpoint' = "failed"
  /\ \E acknowledged \in BOOLEAN : checkpointAnswered(r, acknowledged, FALSE)
  /\ UNCHANGED <<session, currentMarker, markers, isJoining, nextReq, flows,
                 mounted, locationPermission, permPending, interval, reading,
                 alert, lastPosCall, lastAck, issuedSinceAck, lastFetch>>
  /\ UNCHANGED <<acqVars, dispVars>>

\* The Leave Queue button shows a confirmation.
handleLeave ==
  /\ mounted
  /\ session # NoSession
  /\ ~isSubmitting
  /\ BagCardinality(alert) < MaxAlerts
  /\ alert' = alert (+) SetToBag({"leave"})
  /\ UNCHANGED <<session, currentMarker, markers, isJoining, isSubmitting,
                 error, reqs, nextReq, flows, mounted, locationPermission,
                 permPending, interval, reading, lastPosCall, lastAck, issuedSinceAck, lastFetch, lastCheckpoint, waitMinutes>>
  /\ UNCHANGED <<serverVars, acqVars, dispVars>>

\* The Cancel button of one of the confirmations.
alertCancel ==
  /\ \E d \in BagToSet(alert) : alert' = alert (-) SetToBag({d})
  /\ UNCHANGED <<session, currentMarker, markers, isJoining, isSubmitting,
                 error, reqs, nextReq, flows, mounted, locationPermission,
                 permPending, interval, reading, lastPosCall, lastAck, issuedSinceAck, lastFetch, lastCheckpoint, waitMinutes>>
  /\ UNCHANGED <<serverVars, acqVars, dispVars>>

\* navigation.goBack() after the awaited store call of a confirmation.
navigationGoBack ==
  IF mounted THEN unmountQueueScreen
  ELSE UNCHANGED <<mounted, locationPermission, permPending, interval>>

\* The Confirm button of a result confirmation calls submitResult.
submitResult(result) ==
  /\ BagIn(result, alert)
  /\ alert' = alert (-) SetToBag({result})
  /\ isSubmitting' = TRUE
  /\ error' = None
  /\ Issue("result", result)
  /\ UNCHANGED <<session, currentMarker, markers, isJoining, flows, mounted,
                 locationPermission, permPending, interval, reading,
                 lastPosCall, lastAck, issuedSinceAck, lastFetch, lastCheckpoint, waitMinutes>>
  /\ UNCHANGED <<serverVars, acqVars, dispVars>>

\* apiSubmitResult resolved: the session is cleared; the confirmation's
\* handler then goes back.
submitResultResolved(r) ==
  /\ r.kind = "result"
  /\ reqs' = reqs (-) SetToBag({r})
  /\ session' = NoSession
  /\ isSubmitting' = FALSE
  /\ currentMarker' = 0
  /\ lastAck' = "result"
  /\ issuedSinceAck' = FALSE
  /\ navigationGoBack
  /\ UNCHANGED <<markers, isJoining, error, nextReq, flows, reading, alert,
                 lastPosCall, lastFetch, lastCheckpoint, waitMinutes>>
  /\ UNCHANGED <<serverVars, acqVars, dispVars>>

\* A catch block that records the error and forgets the flag.
submitResultRejectedStillSubmitting(r) ==
  /\ r.kind = "result"
  /\ reqs' = reqs (-) SetToBag({r})
  /\ error' = "Failed to submit result"
  /\ navigationGoBack
  /\ UNCHANGED <<session, currentMarker, markers, isJoining, isSubmitting, nextReq, flows,
                 reading, alert, lastPosCall, lastAck, issuedSinceAck, lastFetch, lastCheckpoint, waitMinutes>>
  /\ UNCHANGED <<serverVars, acqVars, dispVars>>

\* apiSubmitResult rejected: the catch block; the confirmation's handler
\* then goes back all the same.
submitResultRejected(r) ==
  /\ r.kind = "result"
  /\ reqs' = reqs (-) SetToBag({r})
  /\ error' = "Failed to submit result"
  /\ isSubmitting' = FALSE
  /\ navigationGoBack
  /\ UNCHANGED <<session, currentMarker, markers, isJoining, nextReq, flows,
                 reading, alert, lastPosCall, lastAck, issuedSinceAck, lastFetch, lastCheckpoint, waitMinutes>>
  /\ UNCHANGED <<serverVars, acqVars, dispVars>>

\* The Confirm button of the leave confirmation calls leaveQueue.
leaveQueue ==
  /\ BagIn("leave", alert)
  /\ alert' = alert (-) SetToBag({"leave"})
  /\ isSubmitting' = TRUE
  /\ error' = None
  /\ Issue("leave", None)
  /\ UNCHANGED <<session, currentMarker, markers, isJoining, flows, mounted,
                 locationPermission, permPending, interval, reading,
                 lastPosCall, lastAck, issuedSinceAck, lastFetch, lastCheckpoint, waitMinutes>>
  /\ UNCHANGED <<serverVars, acqVars, dispVars>>

\* apiLeaveQueue resolved: the session is cleared; the handler goes back.
leaveQueueResolved(r) ==
  /\ r.kind = "leave"
  /\ reqs' = reqs (-) SetToBag({r})
  /\ session' = NoSession
  /\ currentMarker' = 0
  /\ isSubmitting' = FALSE
  /\ lastAck' = "leave"
  /\ issuedSinceAck' = FALSE
  /\ navigationGoBack
  /\ UNCHANGED <<markers, isJoining, error, nextReq, flows, reading, alert,
                 lastPosCall, lastFetch, lastCheckpoint, waitMinutes>>
  /\ UNCHANGED <<serverVars, acqVars, dispVars>>

\* apiLeaveQueue rejected: the catch block; the handler goes back.
leaveQueueRejected(r) ==
  /\ r.kind = "leave"
  /\ reqs' = reqs (-) SetToBag({r})
  /\ error' = "Failed to leave queue"
  /\ isSubmitting' = FALSE
  /\ navigationGoBack
  /\ UNCHANGED <<session, currentMarker, markers, isJoining, nextReq, flows,
                 reading, alert, lastPosCall, lastAck, issuedSinceAck, lastFetch, lastCheckpoint, waitMinutes>>
  /\ UNCHANGED <<serverVars, acqVars, dispVars>>

NextStore ==
  \/ \E qt \in QueueTypes : doJoinQueueWithCoords(qt)
  \/ \E qt \in QueueTypes : joinQueue(qt)
  \/ \E r \in BagToSet(reqs), s \in Sessions : joinQueueResolved(r, s)
  \/ \E r \in BagToSet(reqs) : joinQueueRejected(r)
  \/ handleContinueQueue
  \/ \E r \in BagToSet(reqs) : fetchMarkersResolved(r)
  \/ \E r \in BagToSet(reqs) : fetchMarkersRejected(r)
  \/ goBack
  \/ locationPermissionResolved
  \/ updatePosition
  \/ submitPosition
  \/ updatePositionFailed
  \/ \E r \in BagToSet(reqs) : submitPositionResolved(r)
  \/ \E r \in BagToSet(reqs) : submitPositionRejected(r)
  \/ fetchSession
  \/ \E r \in BagToSet(reqs), answer \in Sessions \cup {NotFound} : fetchSessionResolved(r, answer)
  \/ \E r \in BagToSet(reqs) : fetchSessionRejected(r)
  \/ \E res \in Results : handleResult(res)
  \/ handleLeave
  \/ alertCancel
  \/ \E i \in DOMAIN ServerMarkers : handleCheckpoint(ServerMarkers[i])
  \/ \E r \in BagToSet(reqs) : serverCheckpoint(r)
  \/ \E r \in BagToSet(reqs), w \in {"null", "minutes"} : submitCheckpointResolved(r, w)
  \/ \E r \in BagToSet(reqs) : submitCheckpointRejected(r)
  \/ \E res \in Results : submitResult(res)
  \/ \E r \in BagToSet(reqs) : submitResultResolved(r)
  \/ \E r \in BagToSet(reqs) : submitResultRejected(r)
  \/ leaveQueue
  \/ \E r \in BagToSet(reqs) : leaveQueueResolved(r)
  \/ \E r \in BagToSet(reqs) : leaveQueueRejected(r)

(***************************************************************************)
(* -------------------- LocationAcquisition modal ---------------------- *)
(* Time is the JavaScript clock in milliseconds.  Each call of            *)
(* startLocationAcquisition is an attempt; its watch callback and its     *)
(* timer callbacks are closures of the render that started it, so they    *)
(* read the bestLocation of that render (att[a].best), while the refs     *)
(* (watchRef, timeoutRef, startTimeRef) are shared by all attempts.       *)
(***************************************************************************)
MaxAttempts == 2
MaxSamples == 2
MaxClock == 64000

BERGHAIN_ANCHOR == "anchor"
MAX_DISTANCE_METERS == 500
MIN_SPINNER_TIME == 3000
TARGET_ACCURACY == 15
ACCEPTABLE_ACCURACY == 30
MAX_WAIT_TIME == 30000
TimeInterval == 1000

Attempts == 1..MaxAttempts
Positions == {"metro", "far"}
RawAccuracies == {0, 8, 12, 20}

\* getDistanceMeters(lat, lon, BERGHAIN_LAT, BERGHAIN_LNG), tabulated by the
\* haversine formula for the positions of the model:
\*   metro (52.5086, 13.4396) and far (52.5178946, 13.4430).
getDistanceMeters(pos, anchor) ==
  IF pos = anchor THEN 0
  ELSE IF "metro" \in {pos, anchor} /\ "anchor" \in {pos, anchor} THEN 328
  ELSE IF "far" \in {pos, anchor} /\ "anchor" \in {pos, anchor} THEN 800
  ELSE 1104

InitAcq ==
  /\ clock = 0
  /\ permission \in {"granted", "denied", "undetermined"}
  /\ SKIP_LOCATION_VALIDATION \in BOOLEAN
  /\ visible = FALSE
  /\ status = "acquiring"
  /\ message = "finding"
  /\ bestLocation = NoLocation
  /\ watchRef = 0
  /\ timeoutRef = 0
  /\ startTimeRef = 0
  /\ att = [a \in Attempts |-> [pc |-> "idle", best |-> NoLocation]]
  /\ nAttempts = 0
  /\ subs = {}
  /\ timers = {}
  /\ samplesSent = 0
  /\ recv = [a \in Attempts |-> NoLocation]
  /\ fin = [a \in Attempts |-> 0]
  /\ tmo = [a \in Attempts |->
            [finalized |-> 0, recv |-> NoLocation, outcome |-> None, loc |-> NoLocation]]
  /\ lastFinish = [att |-> 0, loc |-> NoLocation, distance |-> 0, outcome |-> None]
  /\ rejected = {}
  /\ lastError = [kind |-> None, distance |-> 0]
  /\ delivered = NoLocation
  /\ cancelled = FALSE
  /\ lateCallback = FALSE

\* cleanup(): what it leaves of the subscriptions and of the timers tms.
cleanupSubs == subs \ {watchRef}
cleanupTimers(tms) == {t \in tms : ~(t.kind = "max" /\ t.att = timeoutRef)}

\* handleLocationError: the host hides the modal, and the effect on
\* visible runs cleanup() when the prop changes (not when already hidden).
\* ss/tms/w/t: subscriptions, timers and refs as the caller left them.
onError(kind, distance, ss, tms, w, t) ==
  /\ lastError' = [kind |-> kind, distance |-> distance]
  /\ lateCallback' = (lateCallback \/ cancelled)
  /\ visible' = FALSE
  /\ IF visible
       THEN /\ subs' = ss \ {w}
            /\ timers' = {x \in tms : ~(x.kind = "max" /\ x.att = t)}
            /\ watchRef' = 0
            /\ timeoutRef' = 0
       ELSE /\ subs' = ss
            /\ timers' = tms
            /\ watchRef' = w
            /\ timeoutRef' = t

\* finishWithLocation(location), called by a callback of attempt a.
\* tms: the pending timers (without the one that is firing);
\* bl: bestLocation as the caller left it.
finishWithLocation(a, location, tms, bl) ==
  LET distance == getDistanceMeters(location.pos, BERGHAIN_ANCHOR)
      outside == ~SKIP_LOCATION_VALIDATION /\ distance > MAX_DISTANCE_METERS
  IN /\ fin' = [fin EXCEPT ![a] = @ + 1]
     /\ lastFinish' = [att |-> a, loc |-> location, distance |-> distance,
                       outcome |-> IF outside THEN "error" ELSE "success"]
     /\ rejected' = IF outside THEN rejected \cup {location} ELSE rejected
     /\ IF outside
          THEN /\ status' = "error"
               /\ message' = "distance"
               /\ bestLocation' = bl
               /\ onError("OutOfGeofence", distance, cleanupSubs,
                          cleanupTimers(tms), 0, 0)
          ELSE /\ status' = "success"
               /\ message' = "confirmed"
               /\ bestLocation' = location
               /\ subs' = cleanupSubs
               /\ timers' = cleanupTimers(tms)
               /\ watchRef' = 0
               /\ timeoutRef' = 0
               /\ UNCHANGED <<visible, lastError, lateCallback>>

\* The synchronous head of startLocationAcquisition, as attempt a.
\* w/t/ss/tms: refs, subscriptions and timers as the caller left them.
startLocationAcquisition(a) ==
  /\ a = nAttempts + 1
  /\ a \in Attempts
  /\ nAttempts' = a
  /\ status' = "acquiring"
  /\ bestLocation' = NoLocation
  /\ message' = "finding"
  /\ startTimeRef' = clock
  /\ att' = [att EXCEPT ![a] = [pc |-> "getPermissions", best |-> bestLocation]]

\* HomeScreen.checkLocationAndJoin shows the modal; the effect on visible
\* first runs the previous effect's cleanup(), then starts an attempt.
checkLocationAndJoin ==
  /\ ~visible
  /\ visible' = TRUE
  /\ cancelled' = FALSE
  /\ startLocationAcquisition(nAttempts + 1)
  /\ subs' = cleanupSubs
  /\ timers' = cleanupTimers(timers)
  /\ watchRef' = 0
  /\ timeoutRef' = 0
  /\ UNCHANGED <<clock, permission, SKIP_LOCATION_VALIDATION, samplesSent>>
  /\ UNCHANGED histVars
  /\ UNCHANGED <<storeVars, dispVars>>

\* The remedy the modal renders on an error: Open Settings when the message
\* mentions Settings, Try Again otherwise.
SettingsButton == status = "error" /\ message = "settings"
TryAgainButton == status = "error" /\ message # "settings"

\* The Try Again button: shown on an error whose message does not mention
\* Settings; it calls startLocationAcquisition directly.
tryAgain ==
  /\ visible
  /\ TryAgainButton
  /\ startLocationAcquisition(nAttempts + 1)
  /\ UNCHANGED <<clock, permission, SKIP_LOCATION_VALIDATION, visible,
                 watchRef, timeoutRef, subs, timers, samplesSent, cancelled>>
  /\ UNCHANGED histVars
  /\ UNCHANGED <<storeVars, dispVars>>

\* The Open Settings button: the user may change the permission there.
openSettings ==
  /\ visible
  /\ SettingsButton
  /\ permission = "denied"
  /\ permission' = "granted"
  /\ UNCHANGED <<clock, SKIP_LOCATION_VALIDATION, visible, status, message,
                 bestLocation, watchRef, timeoutRef, startTimeRef, att,
                 nAttempts, subs, timers, samplesSent, cancelled>>
  /\ UNCHANGED histVars
  /\ UNCHANGED <<storeVars, dispVars>>

\* The Cancel button (or the back button): handleLocationCancel hides the
\* modal and the effect on visible runs cleanup().
onCancel ==
  /\ visible
  /\ visible' = FALSE
  /\ cancelled' = TRUE
  /\ subs' = cleanupSubs
  /\ timers' = cleanupTimers(timers)
  /\ watchRef' = 0
  /\ timeoutRef' = 0
  /\ UNCHANGED <<clock, permission, SKIP_LOCATION_VALIDATION, status, message,
                 bestLocation, startTimeRef, att, nAttempts, samplesSent>>
  /\ UNCHANGED histVars
  /\ UNCHANGED <<storeVars, dispVars>>

\* The Continue button: handleContinue passes bestLocation to the host,
\* whose handleLocationAcquired hides the modal.
handleContinue ==
  /\ visible
  /\ status = "success"
  /\ bestLocation # NoLocation
  /\ delivered' = bestLocation
  /\ lateCallback' = (lateCallback \/ cancelled)
  /\ visible' = FALSE
  /\ subs' = cleanupSubs
  /\ timers' = cleanupTimers(timers)
  /\ watchRef' = 0
  /\ timeoutRef' = 0
  /\ UNCHANGED <<clock, permission, SKIP_LOCATION_VALIDATION, status, message,
                 bestLocation, startTimeRef, att, nAttempts, samplesSent,
                 cancelled, recv, fin, tmo, lastFinish, rejected, lastError>>
  /\ UNCHANGED <<storeVars, dispVars>>

\* Faulty variant of permissionsChecked: a permission that is already
\* denied is not told apart and goes on to the permission request.
permissionsCheckedNoSettings(a) ==
  /\ att[a].pc = "getPermissions"
  /\ att' = [att EXCEPT ![a].pc = "requestPermissions"]
  /\ UNCHANGED <<status, message>>
  /\ UNCHANGED <<clock, permission, SKIP_LOCATION_VALIDATION, visible,
                 bestLocation, watchRef, timeoutRef, startTimeRef, nAttempts,
                 subs, timers, samplesSent, cancelled>>
  /\ UNCHANGED histVars
  /\ UNCHANGED <<storeVars, dispVars>>

\* getForegroundPermissionsAsync resolved for attempt a.  The attempt
\* returns (pc "denied") when the permission is already denied.
permissionsChecked(a) ==
  /\ att[a].pc = "getPermissions"
  /\ IF permission = "denied"
       THEN /\ status' = "error"
            /\ message' = "settings"
            /\ att' = [att EXCEPT ![a].pc = "denied"]
       ELSE /\ att' = [att EXCEPT ![a].pc = "requestPermissions"]
            /\ UNCHANGED <<status, message>>
  /\ UNCHANGED <<clock, permission, SKIP_LOCATION_VALIDATION, visible,
                 bestLocation, watchRef, timeoutRef, startTimeRef, nAttempts,
                 subs, timers, samplesSent, cancelled>>
  /\ UNCHANGED histVars
  /\ UNCHANGED <<storeVars, dispVars>>

\* requestForegroundPermissionsAsync resolved for attempt a: the user
\* answers the prompt when the permission was undetermined.
permissionsRequested(a, answer) ==
  /\ att[a].pc = "requestPermissions"
  /\ permission' = IF permission = "undetermined" THEN answer ELSE permission
  /\ IF permission' # "granted"
       THEN /\ status' = "error"
            /\ message' = "permission"
            /\ att' = [att EXCEPT ![a].pc = "refused"]
       ELSE /\ att' = [att EXCEPT ![a].pc = "watchPosition"]
            /\ UNCHANGED <<status, message>>
  /\ UNCHANGED <<clock, SKIP_LOCATION_VALIDATION, visible, bestLocation,
                 watchRef, timeoutRef, startTimeRef, nAttempts, subs, timers,
                 samplesSent, cancelled>>
  /\ UNCHANGED histVars
  /\ UNCHANGED <<storeVars, dispVars>>

\* watchPositionAsync resolved for attempt a: the subscription is stored
\* in watchRef and the maxWait timer in timeoutRef.
watchStarted(a) ==
  /\ att[a].pc = "watchPosition"
  /\ att' = [att EXCEPT ![a].pc = "done"]
  /\ watchRef' = a
  /\ subs' = subs \cup {a}
  /\ timeoutRef' = a
  /\ timers' = timers \cup {[kind |-> "max", att |-> a,
                             deadline |-> clock + MAX_WAIT_TIME, loc |-> NoLocation]}
  /\ UNCHANGED <<clock, permission, SKIP_LOCATION_VALIDATION, visible, status,
                 message, bestLocation, startTimeRef, nAttempts, samplesSent,
                 cancelled>>
  /\ UNCHANGED histVars
  /\ UNCHANGED <<storeVars, dispVars>>

\* watchPositionAsync rejected for attempt a: the catch block.
watchFailed(a) ==
  /\ att[a].pc = "watchPosition"
  /\ att' = [att EXCEPT ![a].pc = "done"]
  /\ status' = "error"
  /\ onError("GpsFailure", 0, subs, timers, watchRef, timeoutRef)
  /\ UNCHANGED <<clock, permission, SKIP_LOCATION_VALIDATION, message,
                 bestLocation, startTimeRef, nAttempts, samplesSent, cancelled,
                 recv, fin, tmo, lastFinish, rejected, delivered>>
  /\ UNCHANGED <<storeVars, dispVars>>

\* The message the watch callback shows for an accuracy.
accuracyMessage(accuracy) ==
  IF accuracy > 50 THEN "waiting"
  ELSE IF accuracy > TARGET_ACCURACY THEN "improving"
  ELSE "accurate"

\* Faulty variant of watchCallback: once the minimum spinner time has
\* elapsed, a sample within ACCEPTABLE_ACCURACY is finalized on arrival.
watchCallbackAcceptable(a, rawAccuracy, pos) ==
  LET accuracy == IF rawAccuracy = 0 THEN 999 ELSE rawAccuracy
      newLocation == [accuracy |-> accuracy, pos |-> pos, seq |-> samplesSent + 1]
      best == att[a].best
      bl == IF best = NoLocation \/ accuracy < best.accuracy
              THEN newLocation ELSE bestLocation
      elapsedTime == clock - startTimeRef
  IN /\ a \in subs
     /\ samplesSent < MaxSamples
     /\ samplesSent' = samplesSent + 1
     /\ recv' = [recv EXCEPT ![a] =
                  IF @ = NoLocation \/ accuracy < @.accuracy THEN newLocation ELSE @]
     /\ IF accuracy <= ACCEPTABLE_ACCURACY /\ elapsedTime >= MIN_SPINNER_TIME
          THEN finishWithLocation(a, newLocation, timers, bl)
          ELSE IF accuracy <= TARGET_ACCURACY
            THEN /\ message' = "finishing"
                 /\ bestLocation' = bl
                 /\ timers' = timers \cup
                      {[kind |-> "min", att |-> a,
                        deadline |-> clock + (MIN_SPINNER_TIME - elapsedTime),
                        loc |-> newLocation]}
                 /\ UNCHANGED <<visible, status, watchRef, timeoutRef, subs,
                                fin, lastFinish, rejected, lastError,
                                lateCallback>>
            ELSE /\ message' = accuracyMessage(accuracy)
                 /\ bestLocation' = bl
                 /\ UNCHANGED <<visible, status, watchRef, timeoutRef, subs,
                                timers, fin, lastFinish, rejected, lastError,
                                lateCallback>>
     /\ UNCHANGED <<clock, permission, SKIP_LOCATION_VALIDATION, startTimeRef,
                    att, nAttempts, cancelled, tmo, delivered>>
     /\ UNCHANGED <<storeVars, dispVars>>

\* The callback of attempt a's subscription receives a sample.
watchCallback(a, rawAccuracy, pos) ==
  LET accuracy == IF rawAccuracy = 0 THEN 999 ELSE rawAccuracy
      newLocation == [accuracy |-> accuracy, pos |-> pos, seq |-> samplesSent + 1]
      best == att[a].best
      bl == IF best = NoLocation \/ accuracy < best.accuracy
              THEN newLocation ELSE bestLocation
      elapsedTime == clock - startTimeRef
  IN /\ a \in subs
     /\ samplesSent < MaxSamples
     /\ samplesSent' = samplesSent + 1
     /\ recv' = [recv EXCEPT ![a] =
                  IF @ = NoLocation \/ accuracy < @.accuracy THEN newLocation ELSE @]
     /\ IF accuracy <= TARGET_ACCURACY /\ elapsedTime >= MIN_SPINNER_TIME
          THEN finishWithLocation(a, newLocation, timers, bl)
          ELSE IF accuracy <= TARGET_ACCURACY
            THEN /\ message' = "finishing"
                 /\ bestLocation' = bl
                 /\ timers' = timers \cup
                      {[kind |-> "min", att |-> a,
                        deadline |-> clock + (MIN_SPINNER_TIME - elapsedTime),
                        loc |-> newLocation]}
                 /\ UNCHANGED <<visible, status, watchRef, timeoutRef, subs,
                                fin, lastFinish, rejected, lastError,
                                lateCallback>>
            ELSE /\ message' = accuracyMessage(accuracy)
                 /\ bestLocation' = bl
                 /\ UNCHANGED <<visible, status, watchRef, timeoutRef, subs,
                                timers, fin, lastFinish, rejected, lastError,
                                lateCallback>>
     /\ UNCHANGED <<clock, permission, SKIP_LOCATION_VALIDATION, startTimeRef,
                    att, nAttempts, cancelled, tmo, delivered>>
     /\ UNCHANGED <<storeVars, dispVars>>

\* A timer scheduled by the watch callback (minimum spinner time) fires.
minSpinnerTimeout(t) ==
  /\ t \in timers
  /\ t.kind = "min"
  /\ t.deadline <= clock
  /\ finishWithLocation(t.att, t.loc, timers \ {t}, bestLocation)
  /\ UNCHANGED <<clock, permission, SKIP_LOCATION_VALIDATION, startTimeRef,
                 att, nAttempts, samplesSent, cancelled, recv, tmo, delivered>>
  /\ UNCHANGED <<storeVars, dispVars>>

\* The maxWait timer of attempt a fires; best is the closure's bestLocation.
maxWaitTimeout(t) ==
  LET a == t.att
      best == att[a].best
      seen == [finalized |-> fin[a], recv |-> recv[a]]
  IN /\ t \in timers
     /\ t.kind = "max"
     /\ t.deadline <= clock
     /\ IF best # NoLocation /\ best.accuracy <= ACCEPTABLE_ACCURACY
          THEN /\ finishWithLocation(a, best, timers \ {t}, bestLocation)
               /\ tmo' = [tmo EXCEPT ![a] = seen @@ [outcome |-> "finalize", loc |-> best]]
          ELSE IF best # NoLocation
            THEN /\ status' = "error"
                 /\ message' = "accuracy"
                 /\ onError("AccuracyInsufficient", 0, subs, timers \ {t},
                            watchRef, timeoutRef)
                 /\ tmo' = [tmo EXCEPT ![a] = seen @@ [outcome |-> "AccuracyInsufficient", loc |-> NoLocation]]
                 /\ UNCHANGED <<bestLocation, fin, lastFinish, rejected>>
            ELSE /\ status' = "error"
                 /\ message' = "nofix"
                 /\ onError("NoFix", 0, subs, timers \ {t}, watchRef, timeoutRef)
                 /\ tmo' = [tmo EXCEPT ![a] = seen @@ [outcome |-> "NoFix", loc |-> NoLocation]]
                 /\ UNCHANGED <<bestLocation, fin, lastFinish, rejected>>
     /\ UNCHANGED <<clock, permission, SKIP_LOCATION_VALIDATION, startTimeRef,
                    att, nAttempts, samplesSent, cancelled, recv, delivered>>
     /\ UNCHANGED <<storeVars, dispVars>>

\* Time passes: to the first sample interval after the start, to the end of
\* the minimum spinner time, or to the deadline of the next timer; a timer
\* that is due fires before time moves on.
Pending == subs # {} \/ timers # {} \/
           \E a \in Attempts : att[a].pc \notin {"idle", "done", "denied", "refused"}
NextTimes ==
  {startTimeRef + TimeInterval, startTimeRef + MIN_SPINNER_TIME}
  \cup {t.deadline : t \in timers}
Advance ==
  /\ Pending
  /\ \E now \in NextTimes :
       /\ now > clock
       /\ now <= MaxClock
       /\ \A t \in timers : t.deadline >= now
       /\ clock' = now
  /\ UNCHANGED <<permission, SKIP_LOCATION_VALIDATION, visible, status, message,
                 bestLocation, watchRef, timeoutRef, startTimeRef, att,
                 nAttempts, subs, timers, samplesSent, cancelled>>
  /\ UNCHANGED histVars
  /\ UNCHANGED <<storeVars, dispVars>>

NextAcq ==
  \/ checkLocationAndJoin
  \/ tryAgain
  \/ openSettings
  \/ onCancel
  \/ handleContinue
  \/ \E a \in Attempts : permissionsChecked(a)
  \/ \E a \in Attempts, answer \in {"granted", "denied"} :
       permissionsRequested(a, answer)
  \/ \E a \in Attempts : watchStarted(a)
  \/ \E a \in Attempts : watchFailed(a)
  \/ \E a \in Attempts, acc \in RawAccuracies, pos \in Positions :
       watchCallback(a, acc, pos)
  \/ \E t \in timers : minSpinnerTimeout(t)
  \/ \E t \in timers : maxWaitTimeout(t)
  \/ Advance

(***************************************************************************)
(* ----------------------- getDistanceMeters --------------------------- *)
(* The haversine computation of the component, step by step as the code    *)
(* writes it, in fixed-point arithmetic: a number x is kept as the integer *)
(* x * Scale, angles are kept in degrees (the factor PI / 180 is applied   *)
(* inside sin and cos), and every operation rounds toward zero, which like *)
(* the rounding of IEEE 754 doubles does not depend on the sign.  Math.sin *)
(* and Math.cos are tabulated at the multiples of 15 degrees that the      *)
(* points of the grid produce.                                             *)
(***************************************************************************)
MaxGrid == 2

Scale == 10000
EarthRadius == 6371000

\* The points: latitudes in steps of 30 degrees, longitudes in steps of 60.
GridPoints ==
  [lat : {30 * i : i \in (0 - MaxGrid)..MaxGrid},
   lon : {60 * i : i \in (0 - MaxGrid)..MaxGrid}]

Pairs == {"aa", "ab", "ba", "bb"}

\* x * y and x / 2 in fixed point.
Mul(x, y) ==
  LET p == x * y IN IF p >= 0 THEN p \div Scale ELSE 0 - ((0 - p) \div Scale)
Half(x) == IF x >= 0 THEN x \div 2 ELSE 0 - ((0 - x) \div 2)

\* Math.sin and Math.cos of an angle given in degrees (a multiple of 15).
SinTable == <<0, 2588, 5000, 7071, 8660, 9659, 10000>>
RECURSIVE sin(_)
sin(x) ==
  IF x < 0 THEN 0 - sin(0 - x)
  ELSE LET m == x % 360
       IN IF m <= 90 THEN SinTable[(m \div 15) + 1]
          ELSE IF m <= 180 THEN SinTable[((180 - m) \div 15) + 1]
          ELSE IF m <= 270 THEN 0 - SinTable[((m - 180) \div 15) + 1]
          ELSE 0 - SinTable[((360 - m) \div 15) + 1]
cos(x) == sin(x + 90)

\* Math.sqrt of a number in 0..1.
RECURSIVE sqrtSearch(_, _, _)
sqrtSearch(n, lo, hi) ==
  IF lo >= hi THEN lo
  ELSE LET mid == (lo + hi + 1) \div 2
       IN IF mid * mid <= n THEN sqrtSearch(n, mid, hi)
          ELSE sqrtSearch(n, lo, mid - 1)
sqrt(x) == sqrtSearch(x * Scale, 0, Scale)

\* Math.atan2(y, x) for y, x >= 0, in radians, by the approximation
\* atan(t) = t * PI / 4 + 0.273 * t * (1 - t) on 0 <= t <= 1.
atan01(t) == Mul(t, 7854) + Mul(2730, Mul(t, Scale - t))
atan2(y, x) ==
  IF y = 0 THEN 0
  ELSE IF x >= y THEN atan01((y * Scale) \div x)
  ELSE 15708 - atan01((x * Scale) \div y)

\* Faulty variant of getDistanceMetersHaversine: the cosine of the first
\* latitude is used twice.
getDistanceMetersOneLatitude(lat1, lon1, lat2, lon2) ==
  LET dLat == lat2 - lat1
      dLon == lon2 - lon1
      a == Mul(sin(Half(dLat)), sin(Half(dLat)))
           + Mul(Mul(Mul(cos(lat1), cos(lat1)), sin(Half(dLon))), sin(Half(dLon)))
      c == 2 * atan2(sqrt(a), sqrt(Scale - a))
  IN ((EarthRadius \div 1000) * c) \div (Scale \div 1000)

\* getDistanceMeters(lat1, lon1, lat2, lon2) of the component, in metres.
getDistanceMetersHaversine(lat1, lon1, lat2, lon2) ==
  LET dLat == lat2 - lat1
      dLon == lon2 - lon1
      a == Mul(sin(Half(dLat)), sin(Half(dLat)))
           + Mul(Mul(Mul(cos(lat1), cos(lat2)), sin(Half(dLon))), sin(Half(dLon)))
      c == 2 * atan2(sqrt(a), sqrt(Scale - a))
  IN ((EarthRadius \div 1000) * c) \div (Scale \div 1000)

InitDistanceIdle ==
  /\ pointA = [lat |-> 0, lon |-> 0]
  /\ pointB = [lat |-> 0, lon |-> 0]
  /\ measured = [k \in Pairs |-> -1]

(***************************************************************************)
(* ------------------ the checkpoint grid of QueueScreen ---------------- *)
(* mainQueueMarkers as a function of the marker list and the queue type,   *)
(* on marker lists the backend may answer with: any names, in any order,   *)
(* names of glMarkerNames, other names, and a name that differs from one   *)
(* of glMarkerNames by case only.                                          *)
(***************************************************************************)
MaxMarkers == 3

MarkerNames == {"Barriers", "ATM", "Kiosk", "park"}
DisplayQueueTypes == {"main", "guest_list", "reentry"}

\* The lists of at most MaxMarkers markers; a marker's id is its place.
\* visible = FALSE marks a marker that exists for the server's text
\* parsing only.
MarkerLists ==
  UNION {{[i \in 1..n |-> [id |-> i, name |-> f[i].name, visible |-> f[i].visible]] :
            f \in [1..n -> [name : MarkerNames, visible : BOOLEAN]]} :
         n \in 0..MaxMarkers}

NotRendered == [qt \in DisplayQueueTypes |-> [rendered |-> FALSE, list |-> <<>>]]

InitDisplayIdle ==
  /\ markerList = <<>>
  /\ shown = NotRendered
  /\ InitDistanceIdle

\* QueueScreen renders its checkpoint grid for a session of queue type qt.
renderCheckpoints(qt) ==
  /\ shown' = [shown EXCEPT ![qt] =
                 [rendered |-> TRUE, list |-> mainQueueMarkers(qt, markerList)]]
  /\ UNCHANGED <<markerList, distVars>>
  /\ UNCHANGED <<storeVars, acqVars>>

NextMarkers == \E qt \in DisplayQueueTypes : renderCheckpoints(qt)

\* Any two points of the grid, nothing measured yet.
InitDistance ==
  /\ InitStore
  /\ InitAcq
  /\ permission = "granted"
  /\ SKIP_LOCATION_VALIDATION = TRUE
  /\ markerList = <<>>
  /\ shown = NotRendered
  /\ pointA \in GridPoints
  /\ pointB \in GridPoints
  /\ measured = [k \in Pairs |-> -1]

\* A call getDistanceMeters(p.lat, p.lon, q.lat, q.lon).
measure(k) ==
  LET p == IF k \in {"aa", "ab"} THEN pointA ELSE pointB
      q == IF k \in {"aa", "ba"} THEN pointA ELSE pointB
  IN /\ measured' = [measured EXCEPT ![k] =
                       getDistanceMetersHaversine(p.lat, p.lon, q.lat, q.lon)]
     /\ UNCHANGED <<pointA, pointB, markerList, shown>>
     /\ UNCHANGED <<storeVars, acqVars>>

NextDistance == \E k \in Pairs : measure(k)

Init == InitStore /\ InitAcq /\ InitDisplayIdle

\* The store on a device whose location set-up is fixed.
InitOnDevice ==
  /\ InitStore
  /\ InitAcq
  /\ InitDisplayIdle
  /\ permission = "granted"
  /\ SKIP_LOCATION_VALIDATION = TRUE

\* The checkpoint grid on any marker list of at most MaxMarkers markers.
InitMarkers ==
  /\ InitStore
  /\ InitAcq
  /\ permission = "granted"
  /\ SKIP_LOCATION_VALIDATION = TRUE
  /\ markerList \in MarkerLists
  /\ shown = NotRendered
  /\ InitDistanceIdle

SpecStore == InitOnDevice /\ [][NextStore]_vars

\* The store of a user who is in the queue on a device that refuses the
\* location permission (the build skips the location validation): a
\* main-queue join was answered without a nearest marker, QueueScreen is
\* mounted, its markers are loaded and its permission request was refused;
\* no request is in flight, and the requests are counted from here.
InitInQueue ==
  /\ InitAcq
  /\ InitDisplayIdle
  /\ permission = "denied"
  /\ SKIP_LOCATION_VALIDATION = TRUE
  /\ session = [queue_type |-> "main", result |-> None, nearest_marker_id |-> 0]
  /\ currentMarker = 0
  /\ markers = MarkerIds
  /\ isJoining = FALSE
  /\ isSubmitting = FALSE
  /\ error = None
  /\ reqs = EmptyBag
  /\ nextReq = 0
  /\ flows = [qt \in QueueTypes |-> 0]
  /\ mounted = TRUE
  /\ locationPermission = FALSE
  /\ permPending = FALSE
  /\ interval = FALSE
  /\ reading = 0
  /\ alert = EmptyBag
  /\ lastPosCall = None
  /\ lastAck = None
  /\ issuedSinceAck = TRUE
  /\ lastFetch = NoAnswer
  /\ lastCheckpoint = None
  /\ waitMinutes = None
  /\ served = EmptyBag
  /\ serverMarker = 0
  /\ cpLost = FALSE

\* Without the permission the effect never sets the interval: the steps of
\* the store less those of the position reporter.
NextInQueue ==
  \/ \E qt \in QueueTypes : doJoinQueueWithCoords(qt)
  \/ \E qt \in QueueTypes : joinQueue(qt)
  \/ \E r \in BagToSet(reqs), s \in Sessions : joinQueueResolved(r, s)
  \/ \E r \in BagToSet(reqs) : joinQueueRejected(r)
  \/ handleContinueQueue
  \/ \E r \in BagToSet(reqs) : fetchMarkersResolved(r)
  \/ \E r \in BagToSet(reqs) : fetchMarkersRejected(r)
  \/ goBack
  \/ locationPermissionResolved
  \/ fetchSession
  \/ \E r \in BagToSet(reqs), answer \in Sessions \cup {NotFound} : fetchSessionResolved(r, answer)
  \/ \E r \in BagToSet(reqs) : fetchSessionRejected(r)
  \/ \E res \in Results : handleResult(res)
  \/ handleLeave
  \/ alertCancel
  \/ \E i \in DOMAIN ServerMarkers : handleCheckpoint(ServerMarkers[i])
  \/ \E r \in BagToSet(reqs) : serverCheckpoint(r)
  \/ \E r \in BagToSet(reqs), w \in {"null", "minutes"} : submitCheckpointResolved(r, w)
  \/ \E r \in BagToSet(reqs) : submitCheckpointRejected(r)
  \/ \E res \in Results : submitResult(res)
  \/ \E r \in BagToSet(reqs) : submitResultResolved(r)
  \/ \E r \in BagToSet(reqs) : submitResultRejected(r)
  \/ leaveQueue
  \/ \E r \in BagToSet(reqs) : leaveQueueResolved(r)
  \/ \E r \in BagToSet(reqs) : leaveQueueRejected(r)

SpecInQueue == InitInQueue /\ [][NextInQueue]_vars
\* A response to request r arrives, whatever its kind and outcome: axios
\* settles every call, with an answer or with an error, within its timeout.
Returns(r) ==
  \/ \E s \in Sessions : joinQueueResolved(r, s)
  \/ joinQueueRejected(r)
  \/ fetchMarkersResolved(r)
  \/ fetchMarkersRejected(r)
  \/ submitPositionResolved(r)
  \/ submitPositionRejected(r)
  \/ \E answer \in Sessions \cup {NotFound} : fetchSessionResolved(r, answer)
  \/ fetchSessionRejected(r)
  \/ \E w \in {"null", "minutes"} : submitCheckpointResolved(r, w)
  \/ submitCheckpointRejected(r)
  \/ submitResultResolved(r)
  \/ submitResultRejected(r)
  \/ leaveQueueResolved(r)
  \/ leaveQueueRejected(r)

\* The number of requests a behaviour of the fair store issues.
MaxFairRequests == 3

NextStoreFair == NextStore /\ nextReq' <= MaxFairRequests

\* The store when every network call eventually returns or fails.
SpecStoreFair ==
  /\ InitOnDevice
  /\ [][NextStoreFair]_vars
  /\ WF_vars(\E r \in BagToSet(reqs) : Returns(r) /\ nextReq' <= MaxFairRequests)

SpecAcq == Init /\ [][NextAcq]_vars
SpecMarkers == InitMarkers /\ [][NextMarkers]_vars
SpecDistance == InitDistance /\ [][NextDistance]_vars

(***************************************************************************)
(* C1: a joinQueue call made while an earlier joinQueue call still awaits  *)
(* its response issues no second request: at most one join request is in   *)
(* flight at any time.                                                     *)
(***************************************************************************)
C1_OneJoinRequest == NumInFlight("join") <= 1

(***************************************************************************)
(* C2: finishWithLocation runs at most once in every attempt, whether it   *)
(* is called for a sample, by a minimum-spinner timer or by the maxWait    *)
(* timer.                                                                  *)
(***************************************************************************)
C2_FinalizeOnce == \A a \in Attempts : fin[a] <= 1

(***************************************************************************)
(* C3: when the maxWait timer of an attempt fires before any finalize and  *)
(* the most accurate sample the attempt received is within                 *)
(* ACCEPTABLE_ACCURACY, the handler finalizes with that sample.            *)
(***************************************************************************)
C3_TimeoutFinalizesBest ==
  \A a \in Attempts :
    (/\ tmo[a].outcome # None
     /\ tmo[a].finalized = 0
     /\ tmo[a].recv # NoLocation
     /\ tmo[a].recv.accuracy <= ACCEPTABLE_ACCURACY)
    => (tmo[a].outcome = "finalize" /\ tmo[a].loc = tmo[a].recv)

(***************************************************************************)
(* C4: when the maxWait timer of an attempt fires before any finalize, the *)
(* outcome is NoFix exactly when the attempt received no sample, and       *)
(* AccuracyInsufficient exactly when it received samples of which the most *)
(* accurate is worse than ACCEPTABLE_ACCURACY.                             *)
(***************************************************************************)
C4_TimeoutErrors ==
  \A a \in Attempts :
    (tmo[a].outcome # None /\ tmo[a].finalized = 0)
    => /\ (tmo[a].outcome = "NoFix") <=> (tmo[a].recv = NoLocation)
       /\ (tmo[a].outcome = "AccuracyInsufficient") <=>
            (tmo[a].recv # NoLocation /\ tmo[a].recv.accuracy > ACCEPTABLE_ACCURACY)

(***************************************************************************)
(* C5: whenever the status is success or error, or the modal is hidden     *)
(* (idle after cancel or completion), no position subscription and no      *)
(* acquisition timer is active.                                            *)
(***************************************************************************)
C5_Released ==
  (status \in {"success", "error"} \/ ~visible) => (subs = {} /\ timers = {})

(***************************************************************************)
(* C6: from a cancel until the modal is opened again no subscription and   *)
(* no timer is active, and no completion callback (onError,                *)
(* onLocationAcquired) is ever invoked while cancelled.                    *)
(***************************************************************************)
C6_CancelEffective ==
  /\ ~lateCallback
  /\ cancelled => (subs = {} /\ timers = {})

(***************************************************************************)
(* C7: once the status is success or error, only the start of a new        *)
(* attempt changes it.                                                     *)
(***************************************************************************)
C7_Step ==
  status \in {"success", "error"}
    => (status' = status \/ nAttempts' # nAttempts)
C7_Terminal == [][C7_Step]_vars

(***************************************************************************)
(* C8: every attempt starts clean: the best sample its handlers compare    *)
(* against and finalize with at maxWait is none at its start, and once it  *)
(* has started no subscription and no timer of an earlier attempt exists.  *)
(***************************************************************************)
C8_CleanStart ==
  /\ \A a \in 1..nAttempts : att[a].best = NoLocation
  /\ \A a \in subs : a = nAttempts
  /\ \A t \in timers : t.att = nAttempts

(***************************************************************************)
(* C9: at most one position subscription is active at any time.            *)
(***************************************************************************)
C9_OneSubscription == Cardinality(subs) <= 1

(***************************************************************************)
(* C10: with validation enabled, finishWithLocation of a sample farther    *)
(* than MAX_DISTANCE_METERS from the anchor ends in status error with      *)
(* onError(OutOfGeofence) carrying the measured distance, the status       *)
(* becomes success only by finishWithLocation of a sample within           *)
(* MAX_DISTANCE_METERS, and a sample that was rejected is never passed to  *)
(* onLocationAcquired.                                                     *)
(***************************************************************************)
C10_Step ==
  ~SKIP_LOCATION_VALIDATION =>
    /\ (fin' # fin /\ lastFinish'.distance > MAX_DISTANCE_METERS)
         => /\ status' = "error"
            /\ lastError' = [kind |-> "OutOfGeofence",
                             distance |-> lastFinish'.distance]
            /\ lastFinish'.loc \in rejected'
    /\ (status' = "success" /\ status # "success")
         => (fin' # fin /\ lastFinish'.distance <= MAX_DISTANCE_METERS)
    /\ delivered' \notin rejected'
C10_Geofence == [][C10_Step]_vars

(***************************************************************************)
(* C11: an attempt whose permission check finds the permission already     *)
(* denied returns there: it shows no prompt, never holds a position        *)
(* subscription and never has a maxWait timer, and it leaves the modal in  *)
(* error with the Open Settings remedy; the refusal of a first-time prompt *)
(* leaves it in error with the Try Again remedy instead.                   *)
(***************************************************************************)
C11_Step ==
  \A a \in Attempts :
    /\ (att[a].pc = "getPermissions" /\ att'[a].pc # "getPermissions"
          /\ permission = "denied")
         => /\ att'[a].pc = "denied"
            /\ SettingsButton' /\ ~TryAgainButton'
            /\ subs' = subs /\ timers' = timers
    /\ att[a].pc \in {"idle", "getPermissions", "denied"}
         => (a \notin subs /\ \A t \in timers : t.att # a)
    /\ att[a].pc = "denied" => att'[a].pc = "denied"
    /\ (att[a].pc = "requestPermissions" /\ att'[a].pc # "requestPermissions"
          /\ permission = "undetermined" /\ permission' = "denied")
         => /\ att'[a].pc = "refused"
            /\ TryAgainButton' /\ ~SettingsButton'
C11_DeniedGoesToSettings == [][C11_Step]_vars

\* A first-time prompt was refused (Try Again), and the next attempt found
\* the permission denied and offers Open Settings.
C11_Witness ==
  /\ att[1].pc = "refused"
  /\ att[2].pc = "denied"
  /\ visible
  /\ SettingsButton
  /\ subs = {} /\ timers = {}

(***************************************************************************)
(* C12: a finalize scheduled because a sample reached TARGET_ACCURACY      *)
(* before MIN_SPINNER_TIME had elapsed does not run before its deadline,   *)
(* and it finalizes with the most accurate sample the attempt has received *)
(* by then.                                                                *)
(***************************************************************************)
C12_Step ==
  \A t \in timers \ timers' :
    t.kind = "min"
      => /\ fin'[t.att] = fin[t.att] + 1
         /\ clock >= t.deadline
         /\ lastFinish'.loc.accuracy <= recv[t.att].accuracy
C12_MinSpinnerUsesBest == [][C12_Step]_vars

(***************************************************************************)
(* C13: when a sample arrives after MIN_SPINNER_TIME has elapsed since the *)
(* start, the callback finalizes only for a sample within TARGET_ACCURACY  *)
(* and then with that very sample; the sample that brings an attempt's     *)
(* best accuracy within TARGET_ACCURACY is finalized in the same step, and *)
(* no finalize is deferred to a timer.                                     *)
(***************************************************************************)
C13_Step ==
  (samplesSent' = samplesSent + 1 /\ clock - startTimeRef >= MIN_SPINNER_TIME)
    => /\ fin' # fin
            => /\ lastFinish'.loc.seq = samplesSent'
               /\ lastFinish'.loc.accuracy <= TARGET_ACCURACY
               /\ fin'[lastFinish'.att] = fin[lastFinish'.att] + 1
       /\ \A a \in Attempts :
            (recv'[a] # recv[a] /\ recv'[a].accuracy <= TARGET_ACCURACY)
              => (fin'[a] = fin[a] + 1 /\ lastFinish'.loc = recv'[a])
       /\ timers' \subseteq timers
C13_TargetFinalizesOnArrival == [][C13_Step]_vars

\* A first sample did not finalize; the second, within TARGET_ACCURACY,
\* arrived after the minimum spinner time and was finalized on arrival.
C13_Witness ==
  /\ nAttempts = 1
  /\ clock > startTimeRef + MIN_SPINNER_TIME
  /\ samplesSent = 2
  /\ fin[1] = 1
  /\ lastFinish.loc.seq = 2
  /\ lastFinish.loc.accuracy <= TARGET_ACCURACY
  /\ recv[1] = lastFinish.loc
  /\ status = "success"

(***************************************************************************)
(* C14: an attempt shown in the modal is in status acquiring no longer     *)
(* than MAX_WAIT_TIME after its start (startTimeRef), however long the     *)
(* permission calls and watchPositionAsync take.                           *)
(***************************************************************************)
C14_HardCap ==
  (visible /\ nAttempts > 0 /\ status = "acquiring")
    => clock <= startTimeRef + MAX_WAIT_TIME

(***************************************************************************)
(* C15: the periodic position reporter (the interval of QueueScreen) is    *)
(* set exactly when a local session exists and has no result.              *)
(***************************************************************************)
C15_ReporterIffSession ==
  interval <=> (session # NoSession /\ session.result = None)

(***************************************************************************)
(* C16: while the reporter is torn down (the session was cleared or        *)
(* QueueScreen unmounted, and no interval is set) no position request is   *)
(* issued, also not by a position read that was in progress at the         *)
(* teardown.                                                               *)
(***************************************************************************)
C16_Step ==
  ~interval => NumInFlight("position")' <= NumInFlight("position")
C16_NoSendAfterTeardown == [][C16_Step]_vars

(***************************************************************************)
(* C17: when a leaveQueue call completes, on success and on failure, the   *)
(* local session is none and the reporter is stopped.                      *)
(***************************************************************************)
C17_Step ==
  NumInFlight("leave")' < NumInFlight("leave")
    => (session' = NoSession /\ ~interval')
C17_LeaveClearsAlways == [][C17_Step]_vars

(***************************************************************************)
(* C18: submitResult leaves session and currentMarker unchanged when it    *)
(* issues its request; when the request is acknowledged the session is     *)
(* cleared; when it fails, session and currentMarker are unchanged, the    *)
(* error is set and the reporter keeps running.                            *)
(***************************************************************************)
C18_Step ==
  /\ NumInFlight("result")' > NumInFlight("result")
       => (session' = session /\ currentMarker' = currentMarker)
  /\ NumInFlight("result")' < NumInFlight("result")
       => \/ (session' = NoSession /\ currentMarker' = 0 /\ error' = error)
          \/ /\ session' = session
             /\ currentMarker' = currentMarker
             /\ error' = "Failed to submit result"
             /\ interval' = interval
C18_ResultAfterAck == [][C18_Step]_vars

(***************************************************************************)
(* C19: submitResult issues a request only when the local session exists   *)
(* and has no result.                                                      *)
(***************************************************************************)
C19_Step ==
  NumInFlight("result")' > NumInFlight("result")
    => (session # NoSession /\ session.result = None)
C19_ResultNoOp == [][C19_Step]_vars

(***************************************************************************)
(* C20: submitPosition issues a request only when the local session        *)
(* exists and has no result; called without a session or with a terminal   *)
(* session it leaves the requests as they are.                             *)
(***************************************************************************)
C20_Step ==
  /\ NumInFlight("position")' > NumInFlight("position")
       => (session # NoSession /\ session.result = None)
  /\ (reading' < reading /\ (session = NoSession \/ session.result # None))
       => (reqs' = reqs /\ nextReq' = nextReq)
C20_PositionNoOp == [][C20_Step]_vars

\* Scenario E: join, acknowledged submitResult, then a submitPosition call
\* of a position read that was in progress: nothing was sent.
C20_Witness ==
  /\ lastAck = "result"
  /\ lastPosCall = "skipped"
  /\ session = NoSession
  /\ nextReq = 3
  /\ NumInFlight("position") = 0


\* C21: submitPosition reports silently: a step in which a position read is
\* handed to submitPosition, or in which a position send is issued,
\* answered or fails, changes none of session, currentMarker, error,
\* isJoining and isSubmitting.
C21_Step ==
  (NumInFlight("position")' # NumInFlight("position") \/ reading' < reading)
    => UNCHANGED <<session, currentMarker, error, isJoining, isSubmitting>>
C21_PositionSilent == [][C21_Step]_vars

\* A position send failed while the session is active and the reporter
\* runs, and the store shows no error.
C21_Witness ==
  /\ lastPosCall = "failed"
  /\ session # NoSession
  /\ session.result = None
  /\ interval
  /\ error = None

\* C22: currentMarker becomes a marker only in the step that acknowledges a
\* checkpoint request for that marker, and it does not change in a step
\* that starts and ends with a checkpoint request pending: no other
\* operation sets it to a marker.
C22_Step ==
  /\ (currentMarker' # currentMarker /\ currentMarker' # 0)
       => /\ \E r \in InFlight("checkpoint") : r.arg = currentMarker'
          /\ NumInFlight("checkpoint")' < NumInFlight("checkpoint")
  /\ (NumInFlight("checkpoint") > 0
      /\ NumInFlight("checkpoint")' >= NumInFlight("checkpoint"))
       => currentMarker' = currentMarker
C22_MarkerOnlyByCheckpoint == [][C22_Step]_vars

\* C23: the step in which a checkpoint request fails leaves session and
\* currentMarker as they were, sets error, clears isSubmitting, and the
\* call returns waitMinutes null.
C23_Step ==
  (lastCheckpoint' = "failed"
   /\ NumInFlight("checkpoint")' < NumInFlight("checkpoint"))
    => /\ session' = session
       /\ currentMarker' = currentMarker
       /\ error' # None
       /\ ~isSubmitting'
       /\ waitMinutes' = "null"
C23_CheckpointFailure == [][C23_Step]_vars

\* A checkpoint failed for a marker that is not the selected one: the
\* session is still active, no marker is selected, the error is shown.
C23_Witness ==
  /\ lastCheckpoint = "failed"
  /\ waitMinutes = "null"
  /\ error = "Failed to submit checkpoint"
  /\ ~isSubmitting
  /\ session # NoSession
  /\ session.result = None
  /\ currentMarker = 0

\* C24: without a session or with a session that has a result, no step
\* issues a checkpoint request, and a submitCheckpoint call that is skipped
\* changes no field of the store and returns waitMinutes null.
C24_Step ==
  /\ (session = NoSession \/ session.result # None)
       => NumInFlight("checkpoint")' <= NumInFlight("checkpoint")
  /\ (lastCheckpoint' = "skipped" /\ lastCheckpoint # "skipped")
       => /\ UNCHANGED <<session, currentMarker, markers, isJoining,
                         isSubmitting, error, reqs>>
          /\ waitMinutes' = "null"
C24_CheckpointNoOp == [][C24_Step]_vars

\* A checkpoint button was pressed on a session that has a result: the
\* call was skipped and nothing is in flight.
C24_Witness ==
  /\ lastCheckpoint = "skipped"
  /\ waitMinutes = "null"
  /\ session # NoSession
  /\ session.result # None
  /\ reqs = EmptyBag
  /\ ~isSubmitting

\* C25: a join request is issued only when there is no local session or
\* the local session has a result: joinQueue called with an active session
\* issues no request.
C25_Step ==
  NumInFlight("join")' > NumInFlight("join")
    => (session = NoSession \/ session.result # None)
C25_AlreadyInQueue == [][C25_Step]_vars

\* C26: the step in which a join request is answered either stores an
\* active session, clears isJoining and leaves the periodic reporter
\* running, or (failure) leaves the session as it was, sets error, clears
\* isJoining and starts no reporter.
C26_Step ==
  NumInFlight("join")' < NumInFlight("join")
    => \/ /\ session' # NoSession
          /\ session' # session
          /\ ~isJoining'
          /\ interval'
       \/ /\ session' = session
          /\ error' # None
          /\ ~isJoining'
          /\ interval' => interval
C26_JoinOutcome == [][C26_Step]_vars

\* C28: at most one checkpoint request, at most one result request and at
\* most one leave request is in flight at any time.
C28_OneMutation ==
  /\ NumInFlight("checkpoint") <= 1
  /\ NumInFlight("result") <= 1
  /\ NumInFlight("leave") <= 1

\* C27: the step in which a fetchSession completes leaves the local
\* session equal to the server's answer: none when the answer is "not
\* found", whatever the local session was, and the answered session
\* otherwise; a transport failure leaves the local session as it was.
C27_Step ==
  NumInFlight("session")' < NumInFlight("session")
    => /\ lastFetch' = NotFound => session' = NoSession
       /\ lastFetch' \in Sessions => session' = lastFetch'
       /\ lastFetch' = TransportFailure => session' = session
       /\ lastFetch' \in Sessions \cup {NotFound, TransportFailure}
C29_Step ==
  delivered' # delivered
    => /\ lastFinish.att = nAttempts
       /\ lastFinish.outcome = "success"
       /\ lastFinish.loc = delivered'
       /\ ~cancelled
C29_JoinCarriesValidated == [][C29_Step]_vars

\* C30: for any marker list, the markers shown for queue type main and the
\* markers shown for guest_list or reentry are disjoint: no marker of the
\* list is a checkpoint button for both.
C30_DisjointDisplay ==
  \A qt \in DisplayQueueTypes \ {"main"} :
    (shown["main"].rendered /\ shown[qt].rendered)
      => \A i \in DOMAIN shown["main"].list, j \in DOMAIN shown[qt].list :
           shown["main"].list[i] # shown[qt].list[j]

\* A list with markers of both kinds was rendered for the main queue and
\* for the guest list: each shows some marker, and the marker named "park"
\* (not the "Park" of glMarkerNames) is shown for the main queue.
C30_Witness ==
  /\ shown["main"].rendered
  /\ shown["guest_list"].rendered
  /\ shown["guest_list"].list # <<>>
  /\ \E i \in DOMAIN shown["main"].list : shown["main"].list[i].name = "park"

\* C31: a marker whose visible flag is false is shown as a checkpoint button
\* for no queue type.
C31_HiddenNeverShown ==
  \A qt \in DisplayQueueTypes :
    \A i \in DOMAIN shown[qt].list : shown[qt].list[i].visible

\* C32: getDistanceMeters returns 0 for two identical points, and the same
\* value when its two points are swapped.
C32_ZeroAndSymmetric ==
  /\ measured["aa"] \in {-1, 0}
  /\ measured["bb"] \in {-1, 0}
  /\ (measured["ab"] # -1 /\ measured["ba"] # -1)
       => measured["ab"] = measured["ba"]

\* Two points that differ in latitude and in longitude, none on the
\* equator, were measured in both orders and each against itself: the
\* distance between them is positive.
C32_Witness ==
  /\ pointA.lat # pointB.lat
  /\ pointA.lon # pointB.lon
  /\ pointA.lat # 0
  /\ pointB.lat # 0
  /\ measured["aa"] = 0
  /\ measured["bb"] = 0
  /\ measured["ab"] > 0
  /\ measured["ba"] = measured["ab"]

\* C33: while the only attempt that has received samples is acquiring, the
\* stored best sample is the most accurate of the samples it received: a
\* later, less accurate sample never replaces a more accurate earlier one.
C33_BestIsMostAccurate ==
  \A a \in Attempts :
    (/\ nAttempts = a
     /\ status = "acquiring"
     /\ recv[a] # NoLocation
     /\ \A b \in Attempts \ {a} : recv[b] = NoLocation)
      => /\ bestLocation # NoLocation
         /\ bestLocation.accuracy = recv[a].accuracy

\* C34: in every state of the queue store, currentMarker is a marker only
\* if there is a session.
C34_MarkerNeedsSession == currentMarker # 0 => session # NoSession

\* C35: after an acknowledged submitResult or leaveQueue has cleared the
\* session, and as long as no join or session request has been issued
\* since (every such request in flight is older than the acknowledgement),
\* no step restores a session: the session stays none.
C35_Step ==
  (lastAck # None /\ ~issuedSinceAck /\ session = NoSession)
    => session' = NoSession
C35_NoStaleRestore == [][C35_Step]_vars

\* C36: isSubmitting is true in every state in which a checkpoint, result
\* or leave request is in flight.
C36_FlagCoversRequests ==
  (NumInFlight("checkpoint") + NumInFlight("result") + NumInFlight("leave") > 0)
    => isSubmitting

\* C37: whenever no join request is in flight isJoining is false, whenever
\* no checkpoint, result or leave request is in flight isSubmitting is
\* false, and, every network call returning or failing, a flag that is
\* true is eventually false again.
C37_Settled ==
  /\ NumInFlight("join") = 0 => ~isJoining
  /\ (NumInFlight("checkpoint") + NumInFlight("result") + NumInFlight("leave") = 0)
       => ~isSubmitting
C37_FlagsSettle ==
  /\ []C37_Settled
  /\ isJoining ~> ~isJoining
  /\ isSubmitting ~> ~isSubmitting

\* A join was answered and a checkpoint failed: every request has
\* returned, both flags are false and the error of the checkpoint is shown.
C37_Witness ==
  /\ reqs = EmptyBag
  /\ ~isJoining
  /\ ~isSubmitting
  /\ lastCheckpoint = "failed"
  /\ error = "Failed to submit checkpoint"
  /\ nextReq = MaxFairRequests

\* C38: when the response to the last checkpoint request in flight arrives
\* as a success, no response to an acknowledged checkpoint having been lost
\* meanwhile, currentMarker becomes the marker of the checkpoint the server
\* acknowledged last, whatever the order in which the responses arrived.
C38_Step ==
  \A r \in BagToSet(reqs), w \in {"null", "minutes"} :
    (submitCheckpointResolved(r, w) /\ NumInFlight("checkpoint") = 1 /\ ~cpLost)
      => currentMarker' = serverMarker
C38_LastAcknowledgedWins == [][C38_Step]_vars

====
